---- MODULE Spec2Model ----
(***************************************************************************)
(* Bticino X8000 integration: the poll coordinator (coordinator.py), the   *)
(* cloud API client it drives (api.py), the webhook ingest, the user       *)
(* commands of the climate entity (climate.py), the configuration setters  *)
(* (number.py, switch.py) and the force-token-refresh button (button.py).  *)
(*                                                                         *)
(* Every coroutine is cut at its awaits: between two awaits a handler runs *)
(* atomically on the event loop, so each action below is the code between  *)
(* one await and the next.                                                 *)
(***************************************************************************)
EXTENDS Integers, Sequences, FiniteSets, TLC

-----------------------------------------------------------------------------
(* Configuration and bounds *)

\* coordinator.plant_map flattened in iteration order (one plant, its topology ids)
PlantMap == <<"dA", "dB">>

NumDev == Len(PlantMap)

Positions == 1..NumDev

watched_topologies == {PlantMap[i] : i \in Positions}

\* Topology ids the account can report: the monitored ones and one of a
\* thermostat the user did not select
DeviceIds == watched_topologies \cup {"dX"}

\* A missing dictionary key / Python None
None == [function |-> "none", setPoint |-> 0]

\* Status objects (chronothermostat snapshots) the upstream can deliver
Snaps == {[function |-> "heating", setPoint |-> 20], [function |-> "cooling", setPoint |-> 25]}

DEFAULT_UPDATE_INTERVAL == 15

DEFAULT_COOL_DOWN == 60

DEFAULT_DEBOUNCE == 1

DEFAULT_NOTIFY_ERRORS == TRUE

\* The number entities receive floats. A value of the two interval numbers is
\* written here in tenths of a minute (157 is 15.7 min), a value of the
\* debounce number in hundredths of a second (104 is 1.04 s).

\* Values the user gives to the Update Interval number (within 1..120 min)
UpdateChoices == {10 * DEFAULT_UPDATE_INTERVAL, 600}

\* Values the user gives to the Cool Down Interval number (within 15..180 min)
CoolDownChoices == {300, 10 * DEFAULT_COOL_DOWN}

\* Values the user gives to the Webhook Debounce number (within 0.5..5.0 s).
\* coordinator.debounce_time is kept in whole seconds here, so the values are
\* those that round(value, 1) takes to a whole second.
DebounceChoices == {100 * DEFAULT_DEBOUNCE, 200}

\* The same with values off the step of the number entity, which the service
\* number.set_value lets through
UpdateInputs == UpdateChoices \cup {157}

CoolDownInputs == CoolDownChoices \cup {309}

DebounceInputs == DebounceChoices \cup {104, 196}

\* The keys of the config entry options (const.py)
CONF_UPDATE_INTERVAL == "update_interval"

CONF_COOL_DOWN == "cool_down_interval"

CONF_DEBOUNCE == "webhook_debounce"

CONF_NOTIFY_ERRORS == "notify_errors"

OptionKeys == {CONF_UPDATE_INTERVAL, CONF_COOL_DOWN, CONF_DEBOUNCE, CONF_NOTIFY_ERRORS}

\* Requests one API call may make before the upstream stops answering 401
MaxAttempts == 3

\* Elapsed time since the last accepted webhook is tracked up to this many seconds
MaxElapsed == 2

-----------------------------------------------------------------------------
(* Upstream answers and the API client *)

HttpStatus == {200, 401, 404, 429, 500}

\* What one HTTP request can end in: an answer with a status and a body, an
\* aiohttp.ClientError, or another exception of the transport (a timeout).
\* body: "chrono" a JSON object holding a non-empty chronothermostats list,
\* "empty" a JSON object without one, "nonobject" JSON that is no object,
\* "notjson" text json.loads rejects (m429: the decoder's message, which
\* carries the failing position, contains "429").
Answers ==
    {[net |-> "http", status |-> 200, body |-> "chrono", snap |-> s, m429 |-> FALSE] :
        s \in Snaps}
    \cup {[net |-> "http", status |-> 200, body |-> "nonobject", snap |-> None, m429 |-> FALSE]}
    \cup {[net |-> "http", status |-> st, body |-> "empty", snap |-> None, m429 |-> FALSE] :
        st \in HttpStatus}
    \cup {[net |-> "http", status |-> st, body |-> "notjson", snap |-> None, m429 |-> m] :
        st \in HttpStatus, m \in BOOLEAN}
    \cup {[net |-> n, status |-> 0, body |-> "none", snap |-> None, m429 |-> FALSE] :
        n \in {"ClientError", "TimeoutError"}}

NoAnswer == [net |-> "none", status |-> 0, body |-> "none", snap |-> None, m429 |-> FALSE]

\* A returned dict {"status_code": .., "data": ..}
Returned(status_code, payload, snap) ==
    [kind |-> "dict", status_code |-> status_code, payload |-> payload,
     snap |-> snap, cls |-> "none", m429 |-> FALSE]

\* An exception leaving the API method
Raised(cls, m429) ==
    [kind |-> "exc", status_code |-> 0, payload |-> "none",
     snap |-> None, cls |-> cls, m429 |-> m429]

\* return {"status_code": status_code, "data": json.loads(content)}
ReturnStatusAndData(ans) ==
    IF ans.body = "notjson"
    THEN Raised("JSONDecodeError", ans.m429)
    ELSE Returned(ans.status, ans.body, ans.snap)

\* get_chronothermostat_status on the answer to its request: "refresh" when it
\* awaits handle_unauthorized_error, else the outcome that reaches the caller
get_chronothermostat_status(ans) ==
    IF ans.net = "ClientError" THEN [next |-> "return", outcome |-> Returned(500, "none", None)]
    ELSE IF ans.net = "TimeoutError" THEN [next |-> "return", outcome |-> Raised("TimeoutError", FALSE)]
    ELSE IF ans.status = 401 THEN [next |-> "refresh", outcome |-> ReturnStatusAndData(ans)]
    ELSE [next |-> "return", outcome |-> ReturnStatusAndData(ans)]

\* The typed errors the coordinator imports from the API layer
ApiErrors == {Raised(c, FALSE) : c \in {"RateLimitError", "AuthError", "BticinoApiError"}}

-----------------------------------------------------------------------------
(* State *)

VARIABLES
    auth_broken,         \* api.auth_broken
    update_interval,     \* coordinator.update_interval, the active polling interval
    normal_interval,     \* coordinator.normal_interval
    cool_down_interval,  \* coordinator.cool_down_interval
    data,                \* coordinator.data: topology id -> status object (None: no key)
    poll_pc,             \* where _async_update_data stands: idle, wait, refresh
    poll_idx,            \* position in plant_map of the device being fetched
    batch,               \* the local dict `data` of _async_update_data (kept as it was
                         \* when the batch was aborted, until the next batch starts)
    poll_resp,           \* the 401 answer held while handle_unauthorized_error runs
    call_reqs,           \* requests sent by the current get_chronothermostat_status call
    call_refreshes,      \* token refreshes made by the current call
    started,             \* positions whose fetch was started in the current or last batch
    last_result,         \* how the last batch ended: none, ok, UpdateFailed
    abort_cause,         \* why: none, ratelimit, auth, authflag
    events,              \* rate_limit_exceeded events fired by the current or last batch
    engaged,             \* a 429 abort happened and no 200 was handled since
    debounce_time,       \* coordinator.debounce_time (seconds)
    since_webhook,       \* monotonic() - coordinator._last_webhook_mono, capped
    cmd_pc,              \* where a user command stands: idle, wait, refresh
    force_pc,            \* where async_force_token_refresh stands: idle, wait
    entity_function,     \* climate entity of the first device: self._function
    cred,                \* the client of __init__.py: which token response (by number)
                         \* its header, the members of its data dict and the saved
                         \* config entry come from; what the last refresh reported
    issued,              \* token responses the token endpoint has issued
    api_pc,              \* where a call of that client stands: idle, wait, refresh
    expired,             \* the newest token response whose expiry time has passed
                         \* (-1: none yet); token responses expire in the order issued
    options,             \* coordinator.entry.options: key -> {} (no such key) or {value}
    notify_errors,       \* coordinator.notify_errors
    timer,               \* the token refresh timers of async_setup_entry
    c2c,                 \* the C2C subscriptions of the account and of the config entry
    probe                \* a pure function under evaluation: its inputs and its result

vars == <<auth_broken, update_interval, normal_interval, cool_down_interval, data,
          poll_pc, poll_idx, batch, poll_resp, call_reqs, call_refreshes, started,
          last_result, abort_cause, events, engaged,
          debounce_time, since_webhook, cmd_pc, force_pc,
          entity_function, cred, issued, api_pc, expired,
          options, notify_errors, timer, c2c, probe>>

\* The climate entity's copy of the function and the credentials of the client:
\* followed by SpecClimate and SpecCred, left alone by every other step
credVars == <<entity_function, cred, issued, api_pc, expired>>

\* The saved options and the notification toggle: written by the configuration
\* entities
settingVars == <<options, notify_errors>>

\* The refresh timers and the subscriptions made by async_setup_entry, and the
\* pure functions evaluated on their own
entryVars == <<timer, c2c, probe>>

sideVars == <<credVars, settingVars, entryVars>>

coordVars == <<auth_broken, update_interval, normal_interval, cool_down_interval, data>>

otherVars == <<debounce_time, since_webhook, cmd_pc, force_pc>>

pollVars == <<poll_pc, poll_idx, batch, poll_resp, call_reqs, call_refreshes, started,
              last_result, abort_cause, events, engaged>>

\* async_setup_entry has not run: no refresh timer is pending, none was
\* scheduled. pending: the timers async_call_later holds for update_token;
\* loaded: the entry is set up; how: what scheduled the newest timer
\* (refreshed, retry); time_until_expiry and delay_seconds: the locals of
\* schedule_token_refresh (of the retry: 0 and 300); stated: the answer
\* carried an expiry
NoTimers ==
    [pending |-> 0, loaded |-> FALSE, how |-> "none",
     time_until_expiry |-> 0, delay_seconds |-> 0, stated |-> FALSE]

\* The selected thermostats of the entry, in the order of
\* data["selected_thermostats"]: two thermostats of one plant, each with the
\* webhook_id the config flow generated for it
Thermostats == {1, 2}

\* async_setup_entry has not reached its subscription loop and the account
\* has no C2C subscription. upstream: the subscriptions the cloud holds for the
\* plant, each an id and the webhook it points to (the thermostat's number);
\* stored: plant_data["subscription_id"] of each thermostat (0: none);
\* pc: where the loop stands; idx: the thermostat whose turn it is;
\* ha_subscriptions: what is left of the list the cleanup walks through;
\* created, deleted: the ids this setup pass created and deleted; posts: the
\* subscribe requests made for each thermostat; last_id: the newest id the
\* cloud gave out
NoSubscriptions ==
    [upstream |-> {}, stored |-> [i \in Thermostats |-> 0], pc |-> "start", idx |-> 1,
     ha_subscriptions |-> {}, created |-> {}, deleted |-> {},
     posts |-> [i \in Thermostats |-> 0], last_id |-> 0]

\* No function is under evaluation
NoProbe == [fn |-> "none"]

\* A dict without keys
EmptyDict == [d \in DeviceIds |-> None]

\* entry.options of an entry on which each setting was saved with its default
SavedDefaults ==
    [k \in OptionKeys |->
        CASE k = CONF_UPDATE_INTERVAL -> {DEFAULT_UPDATE_INTERVAL}
          [] k = CONF_COOL_DOWN -> {DEFAULT_COOL_DOWN}
          [] k = CONF_DEBOUNCE -> {DEFAULT_DEBOUNCE}
          [] OTHER -> {DEFAULT_NOTIFY_ERRORS}]

\* entry.options of a fresh entry: no key
NoOptions == [k \in OptionKeys |-> {}]

\* entry.options.get(key, default)
options_get(o, key, default) ==
    IF o[key] = {} THEN default ELSE CHOOSE x \in o[key] : TRUE

\* The settings BticinoCoordinator.__init__ reads from entry.options
coordinator_init(o) ==
    [normal_interval |-> options_get(o, CONF_UPDATE_INTERVAL, DEFAULT_UPDATE_INTERVAL),
     cool_down_interval |-> options_get(o, CONF_COOL_DOWN, DEFAULT_COOL_DOWN),
     debounce_time |-> options_get(o, CONF_DEBOUNCE, DEFAULT_DEBOUNCE),
     notify_errors |-> options_get(o, CONF_NOTIFY_ERRORS, DEFAULT_NOTIFY_ERRORS),
     update_interval |-> options_get(o, CONF_UPDATE_INTERVAL, DEFAULT_UPDATE_INTERVAL)]

\* The integration is set up on an entry whose saved options are o:
\* BticinoCoordinator.__init__ reads the settings from them
InitFrom(o) ==
    /\ auth_broken = FALSE
    /\ normal_interval = coordinator_init(o).normal_interval
    /\ cool_down_interval = coordinator_init(o).cool_down_interval
    /\ update_interval = coordinator_init(o).update_interval
    /\ data = EmptyDict
    /\ poll_pc = "idle"
    /\ poll_idx = 1
    /\ batch = EmptyDict
    /\ poll_resp = NoAnswer
    /\ call_reqs = 0
    /\ call_refreshes = 0
    /\ started = {}
    /\ last_result = "none"
    /\ abort_cause = "none"
    /\ events = 0
    /\ engaged = FALSE
    /\ debounce_time = coordinator_init(o).debounce_time
    /\ since_webhook = MaxElapsed
    /\ cmd_pc = "idle"
    /\ force_pc = "idle"
    /\ entity_function = ""
    /\ cred = [header |-> 0, access_token |-> 0, refresh_token |-> 0, expires_on |-> 0,
               entry |-> 0, reported |-> "none"]
    /\ issued = 0
    /\ api_pc = "idle"
    /\ expired = -1
    /\ options = o
    /\ notify_errors = coordinator_init(o).notify_errors
    /\ timer = NoTimers
    /\ c2c = NoSubscriptions
    /\ probe = NoProbe

\* Set up on an entry whose options hold the defaults
Init == InitFrom(SavedDefaults)

-----------------------------------------------------------------------------
(* The poll batch: BticinoCoordinator._async_update_data *)

\* What the body of the device loop does with the outcome of the fetch:
\* abort: the batch is aborted (ratelimit, auth) or goes on (none);
\* fires: calls of _trigger_rate_limit_abort; reset: the cool-down recovery
\* check runs; store: the status object saved under the topology id.
HandleOutcome(o) ==
    IF o.kind = "dict" THEN
        IF o.status_code = 429
        \* the UpdateFailed raised by the helper inside the try block is caught by
        \* `except Exception`; its message mentions 429, so the helper runs again
        THEN [abort |-> "ratelimit", fires |-> 2, reset |-> FALSE, store |-> None]
        ELSE IF o.status_code = 200
        THEN [abort |-> "none", fires |-> 0, reset |-> TRUE,
              store |-> IF o.payload = "chrono" THEN o.snap ELSE None]
        ELSE [abort |-> "none", fires |-> 0, reset |-> FALSE, store |-> None]
    ELSE IF o.cls = "RateLimitError"
    THEN [abort |-> "ratelimit", fires |-> 1, reset |-> FALSE, store |-> None]
    ELSE IF o.cls = "AuthError"
    THEN [abort |-> "auth", fires |-> 0, reset |-> FALSE, store |-> None]
    ELSE IF o.cls = "BticinoApiError"
    THEN [abort |-> "none", fires |-> 0, reset |-> FALSE, store |-> None]
    ELSE IF o.m429
    THEN [abort |-> "ratelimit", fires |-> 1, reset |-> FALSE, store |-> None]
    ELSE [abort |-> "none", fires |-> 0, reset |-> FALSE, store |-> None]

\* Variant of the abort helper that leaves the polling interval alone
trigger_rate_limit_abort_KeepsInterval(fires) ==
    /\ events' = events + fires
    /\ last_result' = "UpdateFailed"
    /\ abort_cause' = "ratelimit"
    /\ poll_pc' = "idle"
    /\ poll_resp' = NoAnswer
    /\ call_reqs' = 0
    /\ call_refreshes' = 0
    /\ UNCHANGED <<auth_broken, update_interval, normal_interval, cool_down_interval,
                   data, poll_idx, batch, started, engaged, otherVars, sideVars>>

\* Variant of the abort helper that publishes what the batch had gathered
trigger_rate_limit_abort_SavesPartial(fires) ==
    /\ events' = events + fires
    /\ update_interval' = cool_down_interval
    /\ engaged' = TRUE
    /\ data' = [d \in DeviceIds |-> IF batch[d] # None THEN batch[d] ELSE data[d]]
    /\ last_result' = "UpdateFailed"
    /\ abort_cause' = "ratelimit"
    /\ poll_pc' = "idle"
    /\ poll_resp' = NoAnswer
    /\ call_reqs' = 0
    /\ call_refreshes' = 0
    /\ UNCHANGED <<auth_broken, normal_interval, cool_down_interval,
                   poll_idx, batch, started, otherVars, sideVars>>

\* _trigger_rate_limit_abort: fire the event, switch to the cool-down interval,
\* raise UpdateFailed (the batch is over, coordinator.data is not assigned)
trigger_rate_limit_abort(fires) ==
    /\ events' = events + fires
    /\ update_interval' = cool_down_interval
    /\ engaged' = TRUE
    /\ last_result' = "UpdateFailed"
    /\ abort_cause' = "ratelimit"
    /\ poll_pc' = "idle"
    /\ poll_resp' = NoAnswer
    /\ call_reqs' = 0
    /\ call_refreshes' = 0
    /\ UNCHANGED <<auth_broken, normal_interval, cool_down_interval, data,
                   poll_idx, batch, started, otherVars, sideVars>>

\* Variant of the AuthError handler that also switches to the cool-down interval
auth_error_abort_EngagesCoolDown ==
    /\ auth_broken' = TRUE
    /\ update_interval' = cool_down_interval
    /\ last_result' = "UpdateFailed"
    /\ abort_cause' = "auth"
    /\ poll_pc' = "idle"
    /\ poll_resp' = NoAnswer
    /\ call_reqs' = 0
    /\ call_refreshes' = 0
    /\ UNCHANGED <<normal_interval, cool_down_interval, data,
                   poll_idx, batch, started, events, engaged, otherVars, sideVars>>

\* except AuthError: flag auth as broken, raise UpdateFailed
auth_error_abort ==
    /\ auth_broken' = TRUE
    /\ last_result' = "UpdateFailed"
    /\ abort_cause' = "auth"
    /\ poll_pc' = "idle"
    /\ poll_resp' = NoAnswer
    /\ call_reqs' = 0
    /\ call_refreshes' = 0
    /\ UNCHANGED <<update_interval, normal_interval, cool_down_interval, data,
                   poll_idx, batch, started, events, engaged, otherVars, sideVars>>

\* The recovery check of a 200 answer
RecoveredInterval ==
    IF update_interval = cool_down_interval THEN normal_interval ELSE update_interval

\* The batch goes on after this device. After the last one `return data` ends
\* it and the DataUpdateCoordinator assigns the dict to coordinator.data.
\* Otherwise the loop body runs for the next device up to the await of its
\* request: fail-fast check 2, then get_chronothermostat_status sends.
continue_batch(h) ==
    LET newBatch == IF h.store = None THEN batch
                    ELSE [batch EXCEPT ![PlantMap[poll_idx]] = h.store]
    IN  /\ update_interval' = IF h.reset THEN RecoveredInterval ELSE update_interval
        /\ engaged' = IF h.reset THEN FALSE ELSE engaged
        /\ poll_resp' = NoAnswer
        /\ call_refreshes' = 0
        /\ IF poll_idx = NumDev
           THEN /\ data' = newBatch
                /\ batch' = EmptyDict
                /\ last_result' = "ok"
                /\ poll_pc' = "idle"
                /\ call_reqs' = 0
                /\ UNCHANGED <<poll_idx, started, abort_cause>>
           ELSE IF auth_broken
           THEN /\ last_result' = "UpdateFailed"
                /\ abort_cause' = "authflag"
                /\ poll_pc' = "idle"
                /\ batch' = EmptyDict
                /\ call_reqs' = 0
                /\ UNCHANGED <<data, poll_idx, started>>
           ELSE /\ batch' = newBatch
                /\ poll_idx' = poll_idx + 1
                /\ started' = started \cup {poll_idx + 1}
                /\ call_reqs' = 1
                /\ poll_pc' = "wait"
                /\ UNCHANGED <<data, last_result, abort_cause>>
        /\ UNCHANGED <<auth_broken, normal_interval, cool_down_interval, events, otherVars, sideVars>>

\* The try block and its except clauses, on the outcome of the fetch
handle_outcome(o) ==
    LET h == HandleOutcome(o)
    IN  CASE h.abort = "ratelimit" -> trigger_rate_limit_abort(h.fires)
          [] h.abort = "auth" -> auth_error_abort
          [] OTHER -> continue_batch(h)

\* Variant of the batch start that does not look at auth_broken
PollStart_Unguarded ==
    /\ poll_pc = "idle"
    /\ events' = 0
    /\ batch' = EmptyDict
    /\ poll_resp' = NoAnswer
    /\ poll_idx' = 1
    /\ call_refreshes' = 0
    /\ last_result' = "none"
    /\ abort_cause' = "none"
    /\ poll_pc' = "wait"
    /\ started' = {1}
    /\ call_reqs' = 1
    /\ UNCHANGED <<coordVars, engaged, otherVars, sideVars>>

\* _async_update_data from its entry to its first await: fail-fast check 1,
\* then the loop body for the first device up to the await of its request
\* (check 2 reads the same flag)
start_batch ==
    /\ events' = 0
    /\ batch' = EmptyDict
    /\ poll_resp' = NoAnswer
    /\ poll_idx' = 1
    /\ call_refreshes' = 0
    /\ IF auth_broken
       THEN /\ last_result' = "UpdateFailed"
            /\ abort_cause' = "authflag"
            /\ poll_pc' = "idle"
            /\ started' = {}
            /\ call_reqs' = 0
       ELSE /\ last_result' = "none"
            /\ abort_cause' = "none"
            /\ poll_pc' = "wait"
            /\ started' = {1}
            /\ call_reqs' = 1
    /\ UNCHANGED engaged

\* A batch starts when the timer of the coordinator fires
PollStart ==
    /\ poll_pc = "idle"
    /\ start_batch
    /\ UNCHANGED <<coordVars, otherVars, sideVars>>

\* The answer arrives: a 401 goes to handle_unauthorized_error, anything else
\* leaves get_chronothermostat_status and is handled by the loop body
PollRecv(ans) ==
    /\ poll_pc = "wait"
    /\ ans.status = 401 => call_reqs < MaxAttempts
    /\ LET r == get_chronothermostat_status(ans)
       IN  IF r.next = "refresh"
           THEN /\ poll_pc' = "refresh"
                /\ poll_resp' = ans
                /\ UNCHANGED <<coordVars, poll_idx, batch, call_reqs, call_refreshes,
                               started, last_result, abort_cause, events, engaged,
                               otherVars, sideVars>>
           ELSE handle_outcome(r.outcome)

\* The API layer raises one of its typed errors instead of returning
PollRaise(e) ==
    /\ poll_pc = "wait"
    /\ handle_outcome(e)

\* handle_unauthorized_error returns: True retries the request (the method
\* calls itself, which sends at once), False falls through to the return of
\* the 401 answer
PollRefreshDone(ok) ==
    /\ poll_pc = "refresh"
    /\ IF ok
       THEN /\ poll_pc' = "wait"
            /\ call_reqs' = call_reqs + 1
            /\ call_refreshes' = call_refreshes + 1
            /\ poll_resp' = NoAnswer
            /\ UNCHANGED <<coordVars, poll_idx, batch, started,
                           last_result, abort_cause, events, engaged, otherVars, sideVars>>
       ELSE handle_outcome(ReturnStatusAndData(poll_resp))

-----------------------------------------------------------------------------
(* Webhook ingest: BticinoCoordinator.update_from_webhook *)

\* Request bodies the webhook receives. shape: "notjson" (request.json() fails),
\* "nondict" (JSON that is no object), "A" ({"data": {"chronothermostats": [..]}}),
\* "B" ({"chronothermostats": [..]}), "unknown" (an object without the list),
\* "datanull" ({"data": null}). The list holds one status object `snap` whose
\* topology id is `id`; id "nullsender" stands for an object whose "sender"
\* member is null.
WebhookPayloads ==
    [shape : {"A"}, id : watched_topologies, snap : Snaps]
    \cup [shape : {"B"}, id : {PlantMap[1]}, snap : Snaps]
    \cup [shape : {"A"}, id : {"dX", "nullsender"}, snap : {CHOOSE s \in Snaps : TRUE}]
    \cup [shape : {"notjson", "nondict", "unknown", "datanull"}, id : {"dX"},
          snap : {CHOOSE s \in Snaps : TRUE}]

\* _extract_chronothermostats: the list of status objects of a payload
\* (`"chronothermostats" in data` is a TypeError when "data" is null)
extract_chronothermostats(p) ==
    IF p.shape = "datanull" THEN [raises |-> TRUE, list |-> <<>>]
    ELSE IF p.shape \in {"A", "B"}
         THEN [raises |-> FALSE, list |-> <<[id |-> p.id, snap |-> p.snap]>>]
         ELSE [raises |-> FALSE, list |-> <<>>]

\* _get_topology_id: chrono.get("sender", {}).get("plant", {}) is an
\* AttributeError when "sender" is null
get_topology_id(item) ==
    IF item.id = "nullsender" THEN [raises |-> TRUE, id |-> "none"]
    ELSE [raises |-> FALSE, id |-> item.id]

\* The processing loop: the payload's objects for monitored ids, written in order
ApplyWebhook_Unfiltered(d, items) ==
    LET Last(id) == CHOOSE i \in 1..Len(items) :
                        /\ items[i].id = id
                        /\ \A j \in (i + 1)..Len(items) : items[j].id # id
    IN  [id \in DeviceIds |->
            IF \E i \in 1..Len(items) : items[i].id = id
            THEN items[Last(id)].snap
            ELSE d[id]]

\* The processing loop when it updates the fields of the stored object in place
ApplyWebhook_MergesFields(d, items) ==
    LET Last(id) == CHOOSE i \in 1..Len(items) :
                        /\ items[i].id = id
                        /\ \A j \in (i + 1)..Len(items) : items[j].id # id
    IN  [id \in DeviceIds |->
            IF id \in watched_topologies /\ \E i \in 1..Len(items) : items[i].id = id
            THEN IF d[id] = None THEN items[Last(id)].snap
                 ELSE [d[id] EXCEPT !.setPoint = items[Last(id)].snap.setPoint]
            ELSE d[id]]

\* The processing loop: the payload's objects for monitored ids, written in order
ApplyWebhook(d, items) ==
    LET Last(id) == CHOOSE i \in 1..Len(items) :
                        /\ items[i].id = id
                        /\ \A j \in (i + 1)..Len(items) : items[j].id # id
    IN  [id \in DeviceIds |->
            IF id \in watched_topologies /\ \E i \in 1..Len(items) : items[i].id = id
            THEN items[Last(id)].snap
            ELSE d[id]]

\* update_from_webhook past the debounce check: whether it raises, and
\* coordinator.data afterwards
update_from_webhook(d, p) ==
    LET ex == extract_chronothermostats(p)
    IN  IF p.shape = "nondict" THEN [raises |-> FALSE, data |-> d]
        ELSE IF ex.raises THEN [raises |-> TRUE, data |-> d]
        ELSE IF \E i \in 1..Len(ex.list) : get_topology_id(ex.list[i]).raises
             THEN [raises |-> TRUE, data |-> d]
             ELSE [raises |-> FALSE, data |-> ApplyWebhook(d, ex.list)]

\* The status handle_webhook answers with: 400 when the body is no JSON, 200
\* when update_from_webhook returns; an exception that leaves the handler is
\* answered 500 by the web server
handle_webhook(p, debounced) ==
    IF p.shape = "notjson" THEN 400
    ELSE IF ~debounced /\ update_from_webhook(EmptyDict, p).raises THEN 500
    ELSE 200

\* Variant of the ingest that applies nothing while the poll is in cool-down
\* or the authentication is flagged broken
WebhookIngest_OnlyWhenHealthy(p) ==
    IF p.shape = "notjson" \/ since_webhook < debounce_time
    THEN UNCHANGED vars
    ELSE /\ since_webhook' = 0
         /\ data' = IF auth_broken \/ update_interval = cool_down_interval
                    THEN data
                    ELSE update_from_webhook(data, p).data
         /\ UNCHANGED <<auth_broken, update_interval, normal_interval, cool_down_interval,
                        pollVars, debounce_time, cmd_pc, force_pc, sideVars>>

\* Variant of the ingest in which a dropped event restarts the window
WebhookIngest_DropRestartsWindow(p) ==
    IF p.shape = "notjson"
    THEN UNCHANGED vars
    ELSE IF since_webhook < debounce_time
    THEN /\ since_webhook' = 0
         /\ UNCHANGED <<coordVars, pollVars, debounce_time, cmd_pc, force_pc, sideVars>>
    ELSE /\ since_webhook' = 0
         /\ data' = update_from_webhook(data, p).data
         /\ UNCHANGED <<auth_broken, update_interval, normal_interval, cool_down_interval,
                        pollVars, debounce_time, cmd_pc, force_pc, sideVars>>

\* Variant of the ingest without the debounce check
WebhookIngest_NoDebounce(p) ==
    IF p.shape = "notjson"
    THEN UNCHANGED vars
    ELSE /\ since_webhook' = 0
         /\ data' = update_from_webhook(data, p).data
         /\ UNCHANGED <<auth_broken, update_interval, normal_interval, cool_down_interval,
                        pollVars, debounce_time, cmd_pc, force_pc, sideVars>>

\* handle_webhook -> update_from_webhook: the debounce check, then
\* _last_webhook_mono = now, then validation and the processing loop
WebhookIngest(p) ==
    IF p.shape = "notjson" \/ since_webhook < debounce_time
    THEN UNCHANGED vars
    ELSE /\ since_webhook' = 0
         /\ data' = update_from_webhook(data, p).data
         /\ UNCHANGED <<auth_broken, update_interval, normal_interval, cool_down_interval,
                        pollVars, debounce_time, cmd_pc, force_pc, sideVars>>

\* Time passes
Tick ==
    /\ since_webhook < MaxElapsed
    /\ since_webhook' = since_webhook + 1
    /\ UNCHANGED <<coordVars, pollVars, debounce_time, cmd_pc, force_pc, sideVars>>

-----------------------------------------------------------------------------
(* Configuration setters: number.py *)

\* getattr(self.coordinator, "in_cool_down", False): the coordinator has no
\* such attribute, so the default is what the setters read
in_cool_down == FALSE

\* int(value) of a value given in tenths: truncation to the whole part
int(value) == value \div 10

\* round(value, 1) of a value given in hundredths: the nearest tenth
round(value) == (value + 5) \div 10

\* Variant of the save that writes a dict holding the changed key alone
update_config_entry_DropsOtherKeys(key, value, force_refresh, at_once) ==
    /\ options' = [k \in OptionKeys |-> IF k = key THEN {value} ELSE {}]
    /\ IF (force_refresh \/ ~in_cool_down) /\ at_once /\ poll_pc = "idle"
       THEN start_batch
       ELSE UNCHANGED pollVars

\* BticinoBaseNumber._update_config_entry: a copy of the saved options with the
\* key replaced is saved; then, when the caller forces it or the cool-down is
\* not on, coordinator.async_request_refresh() is awaited. at_once: the
\* refresh runs the batch within the call (no batch is under way and the
\* request debouncer is not in its timer); otherwise the batch it asked for
\* starts later, as a PollStart of its own.
update_config_entry(key, value, force_refresh, at_once) ==
    /\ options' = [options EXCEPT ![key] = {value}]
    /\ IF (force_refresh \/ ~in_cool_down) /\ at_once /\ poll_pc = "idle"
       THEN start_batch
       ELSE UNCHANGED pollVars

\* BticinoUpdateIntervalNumber.async_set_native_value
SetUpdateInterval(value, at_once) ==
    LET new_minutes == int(value)
    IN  /\ normal_interval' = new_minutes
        /\ update_interval' = IF ~in_cool_down THEN new_minutes ELSE update_interval
        /\ update_config_entry(CONF_UPDATE_INTERVAL, new_minutes, FALSE, at_once)
        /\ UNCHANGED <<auth_broken, cool_down_interval, data, otherVars,
                       credVars, notify_errors, entryVars>>

\* BticinoCoolDownNumber.async_set_native_value
SetCoolDown(value, at_once) ==
    LET new_minutes == int(value)
    IN  /\ cool_down_interval' = new_minutes
        /\ update_interval' = IF in_cool_down THEN new_minutes ELSE update_interval
        /\ update_config_entry(CONF_COOL_DOWN, new_minutes, TRUE, at_once)
        /\ UNCHANGED <<auth_broken, normal_interval, data, otherVars,
                       credVars, notify_errors, entryVars>>

\* BticinoDebounceNumber.async_set_native_value (the rounded value is a whole
\* number of seconds for the values given here)
SetDebounce(value, at_once) ==
    LET rounded == round(value) \div 10
    IN  /\ debounce_time' = rounded
        /\ update_config_entry(CONF_DEBOUNCE, rounded, FALSE, at_once)
        /\ UNCHANGED <<coordVars, since_webhook, cmd_pc, force_pc,
                       credVars, notify_errors, entryVars>>

(* Notification toggle: switch.py *)

\* BticinoNotifyErrorsSwitch._update_notification_setting (async_turn_on,
\* async_turn_off)
update_notification_setting(enabled) ==
    /\ notify_errors' = enabled
    /\ options' = [options EXCEPT ![CONF_NOTIFY_ERRORS] = {enabled}]
    /\ UNCHANGED <<coordVars, pollVars, otherVars, credVars, entryVars>>

-----------------------------------------------------------------------------
(* User commands: climate.py through BticinoX8000Api.set_chronothermostat_status *)

\* set_chronothermostat_status on the answer to its request
set_chronothermostat_status(ans) ==
    IF ans.net = "http" /\ ans.status = 401 THEN "refresh" ELSE "return"

\* Answers to a post: the body is returned as text, unparsed
PostAnswers == {a \in Answers : a.body \in {"empty", "none"}}

\* async_sync_manual, run once by the platform setup while the entity has no
\* data: its own get_chronothermostat_status, whose 200 answer fills _function
EntitySync(ans) ==
    /\ entity_function = ""
    /\ LET o == get_chronothermostat_status(ans).outcome
       IN  /\ o.kind = "dict"
           /\ entity_function' = IF o.status_code = 200 /\ o.payload = "chrono"
                                 THEN o.snap.function
                                 ELSE entity_function
    /\ UNCHANGED <<coordVars, pollVars, otherVars, cred, issued, api_pc, expired, settingVars, entryVars>>

\* The payload async_set_temperature posts for the value v
set_temperature_payload(v) ==
    [function |-> entity_function, mode |-> "manual", setPoint |-> v]

\* async_set_temperature, async_set_hvac_mode, _async_service_set_boost_mode,
\* _async_service_set_schedule: each builds its payload and posts it
CmdSend ==
    /\ cmd_pc = "idle"
    /\ cmd_pc' = "wait"
    /\ UNCHANGED <<coordVars, pollVars, debounce_time, since_webhook, force_pc, sideVars>>

\* Variant of the command answer that writes the commanded set point into
\* DeviceState on a 200
CmdRecv_Optimistic(ans) ==
    /\ cmd_pc = "wait"
    /\ cmd_pc' = IF set_chronothermostat_status(ans) = "refresh" THEN "refresh" ELSE "idle"
    /\ data' = IF ans.status = 200 /\ data[PlantMap[1]] # None
               THEN [data EXCEPT ![PlantMap[1]].setPoint = 21]
               ELSE data
    /\ UNCHANGED <<auth_broken, update_interval, normal_interval, cool_down_interval,
                   pollVars, debounce_time, since_webhook, force_pc, sideVars>>

\* The answer to the post arrives
CmdRecv(ans) ==
    /\ cmd_pc = "wait"
    /\ cmd_pc' = IF set_chronothermostat_status(ans) = "refresh" THEN "refresh" ELSE "idle"
    /\ UNCHANGED <<coordVars, pollVars, debounce_time, since_webhook, force_pc, sideVars>>

\* handle_unauthorized_error returns: True retries the post, False returns the 401
CmdRefreshDone(ok) ==
    /\ cmd_pc = "refresh"
    /\ cmd_pc' = IF ok THEN "wait" ELSE "idle"
    /\ UNCHANGED <<coordVars, pollVars, debounce_time, since_webhook, force_pc, sideVars>>

-----------------------------------------------------------------------------
(* Force token refresh: button.py, BticinoCoordinator.async_force_token_refresh *)

ForceStart ==
    /\ force_pc = "idle"
    /\ force_pc' = "wait"
    /\ UNCHANGED <<coordVars, pollVars, debounce_time, since_webhook, cmd_pc, sideVars>>

\* What self.api._handle_token_refresh() can return to the forced refresh
handle_token_refresh == BOOLEAN

\* Variant of the forced refresh that clears the flag whatever the refresh returned
ForceDone_AlwaysClears(success) ==
    /\ force_pc = "wait"
    /\ force_pc' = "idle"
    /\ auth_broken' = FALSE
    /\ UNCHANGED <<update_interval, normal_interval, cool_down_interval, data,
                   pollVars, debounce_time, since_webhook, cmd_pc, sideVars>>

\* success = await self.api._handle_token_refresh()
ForceDone(success) ==
    /\ force_pc = "wait"
    /\ force_pc' = "idle"
    /\ auth_broken' = IF success THEN FALSE ELSE auth_broken
    /\ UNCHANGED <<update_interval, normal_interval, cool_down_interval, data,
                   pollVars, debounce_time, since_webhook, cmd_pc, sideVars>>

-----------------------------------------------------------------------------
Next ==
    \/ PollStart
    \/ \E ans \in Answers : PollRecv(ans)
    \/ \E e \in ApiErrors : PollRaise(e)
    \/ \E ok \in BOOLEAN : PollRefreshDone(ok)
    \/ \E p \in WebhookPayloads : WebhookIngest(p)
    \/ Tick
    \/ \E v \in UpdateChoices, at_once \in BOOLEAN : SetUpdateInterval(v, at_once)
    \/ \E v \in CoolDownChoices, at_once \in BOOLEAN : SetCoolDown(v, at_once)
    \/ \E v \in DebounceChoices, at_once \in BOOLEAN : SetDebounce(v, at_once)
    \/ CmdSend
    \/ \E ans \in PostAnswers : CmdRecv(ans)
    \/ \E ok \in BOOLEAN : CmdRefreshDone(ok)
    \/ ForceStart
    \/ \E success \in handle_token_refresh : ForceDone(success)

Spec == Init /\ [][Next]_vars

-----------------------------------------------------------------------------
(* The climate entity next to the coordinator: its setup sync and its
   commands, with the two writers of DeviceState *)

NextClimate ==
    \/ PollStart
    \/ \E ans \in Answers : PollRecv(ans)
    \/ \E e \in ApiErrors : PollRaise(e)
    \/ \E ok \in BOOLEAN : PollRefreshDone(ok)
    \/ \E p \in WebhookPayloads : WebhookIngest(p)
    \/ Tick
    \/ \E ans \in Answers : EntitySync(ans)
    \/ CmdSend
    \/ \E ans \in PostAnswers : CmdRecv(ans)
    \/ \E ok \in BOOLEAN : CmdRefreshDone(ok)

SpecClimate == Init /\ [][NextClimate]_vars

-----------------------------------------------------------------------------
(* Steps the properties below speak about *)

\* The answers that leave get_chronothermostat_status as a dict with this
\* status_code
SurfacesAs(status_code) ==
    {ans \in Answers :
        LET r == get_chronothermostat_status(ans)
        IN  r.next = "return" /\ r.outcome.kind = "dict"
                              /\ r.outcome.status_code = status_code}

SurfacesAs429 == SurfacesAs(429)

SurfacesAs200 == SurfacesAs(200)

\* The answers whose HTTP status is 429, whatever the body
Http429 == {ans \in Answers : ans.net = "http" /\ ans.status = 429}

\* The status fetch of the current device is answered with a rate limit, as a
\* status_code 429 or as a RateLimitError
RateLimitStep ==
    /\ poll_pc = "wait"
    /\ \/ \E ans \in SurfacesAs429 : PollRecv(ans)
       \/ PollRaise(Raised("RateLimitError", FALSE))

\* The poll sends a status request in this step (first request of a device or
\* the retry after a token refresh)
PollFetchSent == poll_pc' = "wait" /\ (poll_pc # "wait" \/ poll_idx' # poll_idx)

\* A climate command sends its request in this step
CmdSent == cmd_pc' = "wait" /\ cmd_pc # "wait"

\* Devices fetched with a snapshot before the current one
FetchedBefore == {i \in 1..(poll_idx - 1) : batch[PlantMap[i]] # None}

-----------------------------------------------------------------------------
(* Rate limit *)

\* C1: when the status fetch of a device is answered with HTTP 429 (returned as
\* status_code 429 or raised as RateLimitError), the batch ends at once with
\* UpdateFailed, no fetch has been or is started for a later device of the
\* batch, and update_interval equals cool_down_interval afterwards.
C1_RateLimitAborts ==
    [][RateLimitStep =>
          /\ poll_pc' = "idle"
          /\ last_result' = "UpdateFailed"
          /\ started' = started
          /\ \A j \in Positions : j > poll_idx => j \notin started'
          /\ update_interval' = cool_down_interval']_vars

\* A batch over two devices was aborted by the rate limit at the first one
C1_Witness ==
    /\ poll_pc = "idle"
    /\ abort_cause = "ratelimit"
    /\ last_result = "UpdateFailed"
    /\ poll_idx = 1
    /\ started = {1}
    /\ update_interval = cool_down_interval

C3_RecoveryRestoresNormal ==
    [][(engaged /\ poll_pc = "wait" /\ \E ans \in SurfacesAs200 : PollRecv(ans))
          => update_interval' = normal_interval']_vars

\* C4: a status request answered with HTTP 429 reaches the poll as a rate
\* limit, whatever the body: the batch is aborted for the rate limit.
C4_Always429Classified ==
    [][(poll_pc = "wait" /\ \E ans \in Http429 : PollRecv(ans))
          => (poll_pc' = "idle" /\ abort_cause' = "ratelimit")]_vars

-----------------------------------------------------------------------------
(* Per-device failures and authentication *)

\* What a fetch hands to the loop when it fails for a reason of the device alone:
\* a status code other than 200/401/429, a 200 whose payload is not the
\* expected object, a body that is not JSON, a timeout
IsDeviceFailure(o) ==
    \/ o.kind = "dict" /\ o.status_code \notin {200, 401, 429}
    \/ o.kind = "dict" /\ o.status_code = 200 /\ o.payload # "chrono"
    \/ o.kind = "exc" /\ o.cls \in {"JSONDecodeError", "TimeoutError"}

\* The answers (none of them a 401 or a 429) that end in such a failure
DeviceFailures ==
    {ans \in Answers :
        /\ ans.status \notin {401, 429}
        /\ get_chronothermostat_status(ans).next = "return"
        /\ IsDeviceFailure(get_chronothermostat_status(ans).outcome)}

DeviceFailureStep ==
    /\ poll_pc = "wait"
    /\ \/ \E ans \in DeviceFailures : PollRecv(ans)
       \/ PollRaise(Raised("BticinoApiError", FALSE))

\* C6: a device fetch that fails for a device-specific reason never aborts the
\* batch: the next device is fetched (or the batch completes when it was the
\* last one), and neither the polling interval nor auth_broken changes.
C6_DeviceFailureSkipped ==
    [][DeviceFailureStep =>
          /\ IF poll_idx < NumDev
             THEN poll_pc' = "wait" /\ poll_idx' = poll_idx + 1
             ELSE poll_pc' = "idle" /\ last_result' = "ok"
          /\ update_interval' = update_interval
          /\ auth_broken' = auth_broken]_vars

\* The answers whose HTTP status is 401
Http401 == {ans \in Answers : ans.net = "http" /\ ans.status = 401}

\* The fetch of the current device ends in an authentication failure: the token
\* refresh fails, the retry after a refresh is answered 401 again, or the API
\* layer raises AuthError
AuthFailureStep ==
    \/ poll_pc = "refresh" /\ PollRefreshDone(FALSE)
    \/ poll_pc = "wait" /\ call_refreshes >= 1 /\ \E ans \in Http401 : PollRecv(ans)
    \/ poll_pc = "wait" /\ PollRaise(Raised("AuthError", FALSE))

\* C7: when a device fetch ends in an authentication failure, no later device
\* of the batch is fetched, auth_broken becomes true and the batch ends with
\* UpdateFailed.
C7_AuthFailureAborts ==
    [][AuthFailureStep =>
          /\ auth_broken'
          /\ poll_pc' = "idle"
          /\ last_result' = "UpdateFailed"
          /\ started' = started]_vars

\* C8: the poll never sends a status request in a state where auth_broken is
\* true, and a batch started with the flag set fails with UpdateFailed before
\* any fetch.
C8_NoFetchWhileBroken ==
    [][/\ PollFetchSent => ~auth_broken
       /\ (auth_broken /\ PollStart) =>
             (poll_pc' = "idle" /\ last_result' = "UpdateFailed" /\ started' = {})]_vars

\* A batch was started with the flag set and was refused before any fetch
C8_Witness ==
    /\ auth_broken
    /\ poll_pc = "idle"
    /\ last_result = "UpdateFailed"
    /\ abort_cause = "authflag"
    /\ started = {}

\* C9: auth_broken, once true, becomes false only in the step in which
\* async_force_token_refresh completes with a successful refresh; every other
\* step (poll, webhook, command, setter) and a failed forced refresh leave it
\* true.
C9_OnlyForcedRefreshClears ==
    [][/\ (auth_broken /\ ~auth_broken') => ForceDone(TRUE)
       /\ (auth_broken /\ ForceDone(FALSE)) => auth_broken']_vars

\* The flag that an authentication failure had set was cleared again: the last
\* batch ended on the failure or was refused for the flag, and the flag is false
C9_Witness ==
    /\ ~auth_broken
    /\ poll_pc = "idle"
    /\ force_pc = "idle"
    /\ abort_cause \in {"auth", "authflag"}

\* C10: while auth_broken is true no request is sent upstream, neither by the
\* poll nor by a climate command.
C10_NoRequestWhileBroken ==
    [][(PollFetchSent \/ CmdSent) => ~auth_broken]_vars

-----------------------------------------------------------------------------
(* The two writers of DeviceState on their own: poll batches, webhook ingests,
   the clock and the debounce setting *)

NextIngest ==
    \/ PollStart
    \/ \E ans \in Answers : PollRecv(ans)
    \/ \E e \in ApiErrors : PollRaise(e)
    \/ \E ok \in BOOLEAN : PollRefreshDone(ok)
    \/ \E p \in WebhookPayloads : WebhookIngest(p)
    \/ Tick
    \/ \E v \in DebounceChoices, at_once \in BOOLEAN : SetDebounce(v, at_once)

SpecIngest == Init /\ [][NextIngest]_vars

-----------------------------------------------------------------------------
(* DeviceState and its two writers *)

\* A webhook passes the debounce check in this step
WebhookAccepted == since_webhook # 0 /\ since_webhook' = 0

\* A webhook ingest writes for device d the snapshot it carries
WebhookWrites(d) ==
    /\ WebhookAccepted
    /\ \E p \in WebhookPayloads :
          /\ p.shape \in {"A", "B"}
          /\ p.id = d
          /\ WebhookIngest(p)
          /\ data'[d] = p.snap

\* A poll batch completes in this step and its dict becomes coordinator.data
PollCompletes == poll_pc # "idle" /\ poll_pc' = "idle" /\ last_result' = "ok"

\* The completing batch leaves for d what it gathered for d: the snapshot of an
\* earlier successful fetch, the snapshot of the answer just handled, or nothing
PollWrites(d) ==
    /\ PollCompletes
    /\ IF d = PlantMap[poll_idx]
       THEN data'[d] \in Snaps \cup {None}
       ELSE data'[d] = batch[d]

-----------------------------------------------------------------------------
(* Webhook ingest *)

\* Payloads that carry a snapshot for a monitored device
MonitoredPayloads ==
    {p \in WebhookPayloads : p.shape \in {"A", "B"} /\ p.id \in watched_topologies}

C13_MalformedTolerated ==
    [][\A p \in WebhookPayloads :
          (since_webhook >= debounce_time /\ WebhookIngest(p)) =>
              handle_webhook(p, FALSE) = IF p.shape = "notjson" THEN 400 ELSE 200]_vars

\* The keys of a dict
Keys(d) == {id \in DeviceIds : d[id] # None}

\* C14: the keys of DeviceState are always among the configured devices: the
\* object a webhook carries for an unmonitored id never creates or changes an
\* entry, and a poll writes only ids of plant_map.
C14_OnlyMonitoredKeys == Keys(data) \subseteq watched_topologies /\ Keys(batch) \subseteq watched_topologies

\* Webhooks were accepted and a poll batch completed, every monitored device
\* has an entry and the unmonitored one has none
C14_Witness ==
    /\ since_webhook = 0
    /\ last_result = "ok"
    /\ Keys(data) = watched_topologies

\* C15: a webhook ingest sends no upstream request and leaves update_interval,
\* normal_interval, cool_down_interval and auth_broken as they are; and the
\* snapshot it carries for a monitored device is written to DeviceState in
\* every state, cool-down engaged or not, auth_broken set or not.
C15_WebhookFrame ==
    [][WebhookAccepted =>
          /\ UNCHANGED <<update_interval, normal_interval, cool_down_interval, auth_broken>>
          /\ ~PollFetchSent
          /\ ~CmdSent
          /\ \A p \in MonitoredPayloads : WebhookIngest(p) => data'[p.id] = p.snap]_vars

\* A webhook was just accepted and DeviceState holds a snapshot, with the
\* cool-down engaged and auth_broken set
C15_Witness ==
    /\ auth_broken
    /\ engaged
    /\ update_interval = cool_down_interval
    /\ since_webhook = 0
    /\ data[PlantMap[2]] \in Snaps
    /\ data[PlantMap[1]] = None

-----------------------------------------------------------------------------
(* Commands *)

\* C16: DeviceState changes only when a poll batch completes or a webhook is
\* ingested; commands, configuration setters and the forced token refresh
\* leave it as it is, whatever their outcome.
C16_OnlyTwoWriters ==
    [][data' # data => (PollCompletes \/ WebhookAccepted)]_vars

\* DeviceState holds a snapshot while a command waits for its answer and a
\* forced token refresh is under way, after the cool-down setting was changed
C16_Witness ==
    /\ data[PlantMap[1]] \in Snaps
    /\ cmd_pc = "wait"
    /\ force_pc = "wait"
    /\ cool_down_interval # DEFAULT_COOL_DOWN

\* C17: whenever a set-temperature command is sent by an entity that was
\* synced at setup, for a device that has a snapshot in DeviceState, the
\* function of its payload is the function of that snapshot, with mode
\* "manual" and the commanded set point.
C17_FunctionPreserved ==
    [][(CmdSent /\ entity_function # "" /\ data[PlantMap[1]] \in Snaps) =>
          \A v \in {21} :
              /\ set_temperature_payload(v).function = data[PlantMap[1]].function
              /\ set_temperature_payload(v).mode = "manual"
              /\ set_temperature_payload(v).setPoint = v]_vars

-----------------------------------------------------------------------------
(* Concurrency of the API calls *)

\* The requests to the thermostat API that wait for their answer: the
\* coordinator's fetch and the entity's post go through two BticinoX8000Api
\* objects, neither of which holds a lock or a semaphore
RequestsInFlight ==
    (IF poll_pc = "wait" THEN 1 ELSE 0) + (IF cmd_pc = "wait" THEN 1 ELSE 0)

\* C18: at most one request to the thermostat API is in flight at any time.
C18_OneInFlight ==
    RequestsInFlight <= 1

\* The calls that are inside handle_unauthorized_error, each waiting for the
\* answer of its own request to the token endpoint
RefreshesInFlight ==
    (IF poll_pc = "refresh" THEN 1 ELSE 0) + (IF cmd_pc = "refresh" THEN 1 ELSE 0)

-----------------------------------------------------------------------------
(* Credentials: BticinoX8000Api.header, the data dict of async_setup_entry *)

\* Token responses the authorization server issues in one run
MaxTokens == 6

\* Refresh timers followed at the same time
MaxChains == 3

\* A method of the client sends its request with self.header
ApiCallSend ==
    /\ api_pc = "idle"
    /\ api_pc' = "wait"
    /\ UNCHANGED <<coordVars, pollVars, otherVars, entity_function, cred, issued, expired, settingVars, entryVars>>

\* The answer arrives: a 401 enters handle_unauthorized_error, any other
\* status is returned to the caller
ApiCallRecv(status_code) ==
    /\ api_pc = "wait"
    /\ api_pc' = IF status_code = 401 THEN "refresh" ELSE "idle"
    /\ UNCHANGED <<coordVars, pollVars, otherVars, entity_function, cred, issued, expired, settingVars, entryVars>>

\* What the token endpoint can answer to a refresh: a 200 with the tokens, no
\* answer (aiohttp.ClientError), another status, a 200 whose body is no JSON,
\* a 200 whose JSON has no access_token
TokenAnswers == {"tokens", "ClientError", "non200", "notjson", "no_access_token"}

\* refresh_access_token: returns the three members of the answer or raises
refresh_access_token(answer) ==
    [raises |-> answer # "tokens"]

\* Variant of the 401 handler that installs what a failed refresh left it with
handle_unauthorized_error_InstallsOnFailure(answer) ==
    /\ api_pc = "refresh"
    /\ IF ~refresh_access_token(answer).raises
       THEN /\ issued < MaxTokens
            /\ issued' = issued + 1
            /\ cred' = [cred EXCEPT !.header = issued + 1, !.reported = "ok"]
            /\ api_pc' = "wait"
       ELSE /\ api_pc' = "idle"
            /\ cred' = [cred EXCEPT !.header = -1, !.reported = "failed"]
            /\ UNCHANGED issued
    /\ UNCHANGED <<coordVars, pollVars, otherVars, entity_function, expired, settingVars, entryVars>>

\* handle_unauthorized_error: refresh_access_token presents data["refresh_token"];
\* of the answer (access token, refresh token, expiry) the access token alone is
\* kept, in self.header, and the method that got the 401 calls itself again;
\* when the refresh raises, False is returned and the 401 goes to the caller
handle_unauthorized_error(answer) ==
    /\ api_pc = "refresh"
    /\ IF ~refresh_access_token(answer).raises
       THEN /\ issued < MaxTokens
            /\ issued' = issued + 1
            /\ cred' = [cred EXCEPT !.header = issued + 1, !.reported = "ok"]
            /\ api_pc' = "wait"
       ELSE /\ api_pc' = "idle"
            /\ cred' = [cred EXCEPT !.reported = "failed"]
            /\ UNCHANGED issued
    /\ UNCHANGED <<coordVars, pollVars, otherVars, entity_function, expired, settingVars, entryVars>>

\* The clock at a refresh (seconds)
Nows == {1000, 1300}

\* What the token answer carries as expires_on (an absolute time) and as
\* expires_in (seconds); 0 stands for a member that is absent, null or zero
ExpiryMembers ==
    {[expires_on |-> x, expires_in |-> y] : x \in {0, 1200, 1660, 4600}, y \in {0, 360, 3600}}

max(a, b) == IF a >= b THEN a ELSE b

\* The access_token_expires_on that refresh_access_token returns at time now
access_token_expires_on(m, now) ==
    IF m.expires_on # 0 THEN m.expires_on
    ELSE IF m.expires_in # 0 THEN now + m.expires_in
    ELSE now + 3600

\* Variant of the scheduler without the lower limit on the delay
schedule_token_refresh_NoFloor(t, expires_on, stated, now) ==
    [t EXCEPT !.pending = @ + 1,
              !.how = "refreshed",
              !.time_until_expiry = expires_on - now,
              !.delay_seconds = (expires_on - now) - 300,
              !.stated = stated]

\* schedule_token_refresh with data["access_token_expires_on"] = expires_on:
\* one more timer, due max(time_until_expiry - 300, 60) seconds from now
schedule_token_refresh(t, expires_on, stated, now) ==
    [t EXCEPT !.pending = @ + 1,
              !.how = "refreshed",
              !.time_until_expiry = expires_on - now,
              !.delay_seconds = max((expires_on - now) - 300, 60),
              !.stated = stated]

\* update_token, run at setup and by the timer of schedule_token_refresh, t
\* being the timers as the invocation finds them: the three members of the
\* answer are stored in data and data is saved in the config entry;
\* self.header of the client built from data before is not rebuilt; the next
\* invocation is scheduled from the new expiry. When the refresh raises, the
\* error is logged and the next invocation is scheduled 300 seconds later.
update_token(answer, m, now, t) ==
    /\ IF ~refresh_access_token(answer).raises
       THEN /\ issued < MaxTokens
            /\ issued' = issued + 1
            /\ cred' = [cred EXCEPT !.access_token = issued + 1,
                                    !.refresh_token = issued + 1,
                                    !.expires_on = issued + 1,
                                    !.entry = issued + 1,
                                    !.reported = "ok"]
            /\ timer' = schedule_token_refresh(t, access_token_expires_on(m, now),
                                               m.expires_on # 0 \/ m.expires_in # 0, now)
       ELSE /\ cred' = [cred EXCEPT !.reported = "failed"]
            /\ timer' = [t EXCEPT !.pending = @ + 1, !.how = "retry",
                                  !.time_until_expiry = 0, !.delay_seconds = 300,
                                  !.stated = FALSE]
            /\ UNCHANGED issued
    /\ UNCHANGED <<coordVars, pollVars, otherVars, entity_function, api_pc, expired,
                   settingVars, c2c, probe>>

\* async_setup_entry up to its first await: `await update_token(None)`
SetupUpdateToken(answer, m, now) ==
    /\ ~timer.loaded
    /\ timer.pending < MaxChains
    /\ update_token(answer, m, now, [timer EXCEPT !.loaded = TRUE])

\* A timer of async_call_later comes due and invokes update_token
TokenTimerFires(answer, m, now) ==
    /\ timer.pending > 0
    /\ update_token(answer, m, now, [timer EXCEPT !.pending = @ - 1])

\* async_unload_entry: platforms, subscriptions and webhooks are removed; the
\* handle async_call_later returned was not kept, and no timer is cancelled
async_unload_entry ==
    /\ timer.loaded
    /\ timer' = [timer EXCEPT !.loaded = FALSE]
    /\ UNCHANGED <<coordVars, pollVars, otherVars, credVars, settingVars, c2c, probe>>

\* Time passes the access_token_expires_on of the oldest token response that
\* has not expired yet
TokenExpires ==
    /\ expired < issued
    /\ expired' = expired + 1
    /\ UNCHANGED <<coordVars, pollVars, otherVars, entity_function, cred, issued, api_pc, settingVars, entryVars>>

NextCred ==
    \/ ApiCallSend
    \/ TokenExpires
    \/ \E status_code \in HttpStatus : ApiCallRecv(status_code)
    \/ \E answer \in TokenAnswers : handle_unauthorized_error(answer)
    \/ \E answer \in TokenAnswers, m \in ExpiryMembers, now \in Nows :
           SetupUpdateToken(answer, m, now)
    \/ \E answer \in TokenAnswers, m \in ExpiryMembers, now \in Nows :
           TokenTimerFires(answer, m, now)

SpecCred == Init /\ [][NextCred]_vars

\* The refresh timers over setting up, refreshing and unloading the entry
NextTimer ==
    \/ async_unload_entry
    \/ \E answer \in TokenAnswers, m \in ExpiryMembers, now \in Nows :
           SetupUpdateToken(answer, m, now)
    \/ \E answer \in TokenAnswers, m \in ExpiryMembers, now \in Nows :
           TokenTimerFires(answer, m, now)

SpecTimer == Init /\ [][NextTimer]_vars

ApiRequestSent == api_pc # "wait" /\ api_pc' = "wait"

\* C21: no request is sent with an access token whose expiry time has passed.
C21_NoExpiredTokenSent ==
    [][ApiRequestSent => cred.header' > expired']_vars

-----------------------------------------------------------------------------
(* Transient upstream failures *)

\* The answers that are a 5xx response or a network/transport error
TransientFailures ==
    {ans \in Answers : ans.net \in {"ClientError", "TimeoutError"}
                        \/ (ans.net = "http" /\ ans.status >= 500)}

\* The first attempt of a status fetch ends in a 5xx or a transport error
TransientFailureStep ==
    /\ poll_pc = "wait"
    /\ call_reqs = 1
    /\ \E ans \in TransientFailures : PollRecv(ans)

\* C22: a status fetch whose first attempt ends in a 5xx response or in a
\* network/transport error is attempted again: the same device is asked a
\* second time before the call gives up.
C22_TransientRetried ==
    [][TransientFailureStep =>
          /\ poll_pc' = "wait"
          /\ poll_idx' = poll_idx
          /\ call_reqs' = call_reqs + 1]_vars

-----------------------------------------------------------------------------
(* Authentication errors and the cool-down *)

\* The fetch of the current device raises AuthError
AuthErrorStep ==
    /\ poll_pc = "wait"
    /\ PollRaise(Raised("AuthError", FALSE))

-----------------------------------------------------------------------------
(* The configuration entities next to the poll: the three numbers and the
   notification switch, on a fresh entry or on one with saved options *)

\* Options an entry can hold when the integration is set up: none (fresh), the
\* defaults, or values saved earlier
SavedOptions ==
    {NoOptions, SavedDefaults,
     [SavedDefaults EXCEPT ![CONF_UPDATE_INTERVAL] = {60}, ![CONF_NOTIFY_ERRORS] = {FALSE}]}

InitSettings == \E o \in SavedOptions : InitFrom(o)

NextSettings ==
    \/ PollStart
    \/ \E ans \in Answers : PollRecv(ans)
    \/ \E e \in ApiErrors : PollRaise(e)
    \/ \E ok \in BOOLEAN : PollRefreshDone(ok)
    \/ \E v \in UpdateInputs, at_once \in BOOLEAN : SetUpdateInterval(v, at_once)
    \/ \E v \in CoolDownInputs, at_once \in BOOLEAN : SetCoolDown(v, at_once)
    \/ \E v \in DebounceInputs, at_once \in BOOLEAN : SetDebounce(v, at_once)
    \/ \E enabled \in BOOLEAN : update_notification_setting(enabled)

SpecSettings == InitSettings /\ [][NextSettings]_vars

\* Cooldown is engaged: a rate limit switched the poll to the cool-down
\* interval and no successful fetch has ended it
InCoolDown == engaged /\ update_interval = cool_down_interval

\* The Update Interval number is set in this step
UpdateIntervalSet ==
    \E v \in UpdateInputs, at_once \in BOOLEAN : SetUpdateInterval(v, at_once)

\* The Cool Down Interval number is set in this step
CoolDownSet ==
    \E v \in CoolDownInputs, at_once \in BOOLEAN : SetCoolDown(v, at_once)

\* The Webhook Debounce number is set in this step
DebounceSet ==
    \E v \in DebounceInputs, at_once \in BOOLEAN : SetDebounce(v, at_once)

\* C24: while Cooldown is engaged, setting the Update Interval number changes
\* normal_interval and leaves the active polling interval at
\* cool_down_interval.
C24_UpdateIntervalKeepsCoolDown ==
    [][(InCoolDown /\ UpdateIntervalSet) =>
          /\ update_interval' = cool_down_interval'
          /\ cool_down_interval' = cool_down_interval]_vars

\* The configuration entities alone: sequences of setter calls
NextOptions ==
    \/ \E v \in UpdateInputs, at_once \in BOOLEAN : SetUpdateInterval(v, at_once)
    \/ \E v \in CoolDownInputs, at_once \in BOOLEAN : SetCoolDown(v, at_once)
    \/ \E v \in DebounceInputs, at_once \in BOOLEAN : SetDebounce(v, at_once)
    \/ \E enabled \in BOOLEAN : update_notification_setting(enabled)

SpecOptions == InitSettings /\ [][NextOptions]_vars

\* A coordinator constructed from the saved options would start with the
\* settings the running coordinator holds
OptionsMirrorSettings ==
    LET c == coordinator_init(options)
    IN  /\ c.normal_interval = normal_interval
        /\ c.cool_down_interval = cool_down_interval
        /\ c.debounce_time = debounce_time
        /\ c.notify_errors = notify_errors

\* A setter for this key leaves the other saved keys as they were
OtherKeysKept(key) == \A k \in OptionKeys \ {key} : options'[k] = options[k]

\* Each saved key that is present holds the coordinator's value
SavedEqualsMemory ==
    /\ options[CONF_UPDATE_INTERVAL] \subseteq {normal_interval}
    /\ options[CONF_COOL_DOWN] \subseteq {cool_down_interval}
    /\ options[CONF_DEBOUNCE] \subseteq {debounce_time}
    /\ options[CONF_NOTIFY_ERRORS] \subseteq {notify_errors}

\* C25 as stated: after a setter call the saved options hold, under the key of
\* the setter, the value that was set, equal to the coordinator's value; the
\* other keys are unchanged; a coordinator constructed from the saved options
\* starts with the values the coordinator holds.
C25_OptionsHoldValueSet ==
    [][/\ SavedEqualsMemory' /\ OptionsMirrorSettings'
       /\ \A v \in UpdateInputs :
             (\E at_once \in BOOLEAN : SetUpdateInterval(v, at_once)) =>
                /\ options'[CONF_UPDATE_INTERVAL] # {}
                /\ \A x \in options'[CONF_UPDATE_INTERVAL] : 10 * x = v
                /\ OtherKeysKept(CONF_UPDATE_INTERVAL)
       /\ \A v \in CoolDownInputs :
             (\E at_once \in BOOLEAN : SetCoolDown(v, at_once)) =>
                /\ options'[CONF_COOL_DOWN] # {}
                /\ \A x \in options'[CONF_COOL_DOWN] : 10 * x = v
                /\ OtherKeysKept(CONF_COOL_DOWN)
       /\ \A v \in DebounceInputs :
             (\E at_once \in BOOLEAN : SetDebounce(v, at_once)) =>
                /\ options'[CONF_DEBOUNCE] # {}
                /\ \A x \in options'[CONF_DEBOUNCE] : 100 * x = v
                /\ OtherKeysKept(CONF_DEBOUNCE)
       /\ \A enabled \in BOOLEAN :
             update_notification_setting(enabled) =>
                /\ options'[CONF_NOTIFY_ERRORS] = {enabled}
                /\ OtherKeysKept(CONF_NOTIFY_ERRORS)]_vars

\* C25, as the code has it: after a setter call the saved options hold, under
\* the key of the setter, the value as the setter converted it (an interval
\* truncated to whole minutes, the debounce rounded to one decimal), equal to
\* the coordinator's value; the other keys are unchanged; a coordinator
\* constructed from the saved options starts with the values the coordinator
\* holds.
C25_OptionsHoldConvertedValue ==
    [][/\ SavedEqualsMemory' /\ OptionsMirrorSettings'
       /\ \A v \in UpdateInputs :
             (\E at_once \in BOOLEAN : SetUpdateInterval(v, at_once)) =>
                /\ options'[CONF_UPDATE_INTERVAL] = {int(v)}
                /\ normal_interval' = int(v)
                /\ OtherKeysKept(CONF_UPDATE_INTERVAL)
       /\ \A v \in CoolDownInputs :
             (\E at_once \in BOOLEAN : SetCoolDown(v, at_once)) =>
                /\ options'[CONF_COOL_DOWN] = {int(v)}
                /\ cool_down_interval' = int(v)
                /\ OtherKeysKept(CONF_COOL_DOWN)
       /\ \A v \in DebounceInputs :
             (\E at_once \in BOOLEAN : SetDebounce(v, at_once)) =>
                /\ options'[CONF_DEBOUNCE] = {round(v) \div 10}
                /\ 10 * debounce_time' = round(v)
                /\ OtherKeysKept(CONF_DEBOUNCE)
       /\ \A enabled \in BOOLEAN :
             update_notification_setting(enabled) =>
                /\ options'[CONF_NOTIFY_ERRORS] = {enabled}
                /\ notify_errors' = enabled
                /\ OtherKeysKept(CONF_NOTIFY_ERRORS)]_vars

\* Every setting was set to a value other than its default, on an entry that
\* may have started without options, and all four are saved
C25_Witness ==
    /\ options[CONF_UPDATE_INTERVAL] = {60}
    /\ options[CONF_COOL_DOWN] = {30}
    /\ options[CONF_DEBOUNCE] = {2}
    /\ options[CONF_NOTIFY_ERRORS] = {FALSE}
    /\ normal_interval = 60
    /\ cool_down_interval = 30
    /\ debounce_time = 2
    /\ ~notify_errors

-----------------------------------------------------------------------------
(* What a completed batch leaves of DeviceState *)

\* The batch that completes in this step fetched a snapshot for d: an earlier
\* device has it in the local dict, the last device gets it in this step
FetchedInBatch(d) ==
    IF d = PlantMap[poll_idx] THEN data'[d] \in Snaps ELSE batch[d] \in Snaps

\* C26: a completed poll batch leaves the DeviceState entry of every device it
\* did not fetch successfully exactly as it was, whether a poll or a webhook
\* ingest (before or during the batch) had written it.
C26_PollFrame ==
    [][PollCompletes =>
          \A d \in DeviceIds : ~FetchedInBatch(d) => data'[d] = data[d]]_vars

-----------------------------------------------------------------------------
(* The configuration entities during the cool-down *)

\* C27: setting the Cool Down Interval number while Cooldown is engaged makes
\* the active polling interval the new cool-down value at once; while Cooldown
\* is not engaged it changes cool_down_interval and leaves the active polling
\* interval as it was.
C27_CoolDownSetterFollows ==
    [][\A v \in CoolDownInputs :
          (\E at_once \in BOOLEAN : SetCoolDown(v, at_once)) =>
              /\ cool_down_interval' = int(v)
              /\ IF InCoolDown
                 THEN update_interval' = int(v)
                 ELSE update_interval' = update_interval]_vars

\* C28: while Cooldown is engaged, setting the Update Interval or the Webhook
\* Debounce number (force_refresh false) asks for no refresh: the setter
\* starts no poll batch and no status request is sent.
C28_NoRefreshInCoolDown ==
    [][(InCoolDown /\ poll_pc = "idle" /\ (UpdateIntervalSet \/ DebounceSet)) =>
          (poll_pc' = "idle" /\ ~PollFetchSent /\ UNCHANGED pollVars)]_vars

-----------------------------------------------------------------------------
(* The debounce window *)

\* Bodies that reach update_from_webhook: every body that is JSON
JsonPayloads == {p \in WebhookPayloads : p.shape # "notjson"}

\* C29: an event is dropped by the debounce exactly when less than
\* debounce_time has elapsed since the last event that passed the check; a
\* dropped event changes nothing and does not restart the window; an event
\* that arrives debounce_time or more after the last one that passed is let
\* through and restarts it. The time since the last passed event goes back to
\* zero at such an event and at no other step.
C29_DebounceExact ==
    [][/\ \A p \in JsonPayloads :
             WebhookIngest(p) =>
                 IF since_webhook < debounce_time
                 THEN UNCHANGED vars
                 ELSE since_webhook' = 0
       /\ since_webhook' < since_webhook =>
             /\ since_webhook >= debounce_time
             /\ since_webhook' = 0
             /\ \E p \in JsonPayloads : WebhookIngest(p)]_vars

\* An event was let through and wrote a snapshot (no poll so far), and the
\* window of two seconds has run out since: events that came in between were
\* dropped without a trace, the next one is let through
C29_Witness ==
    /\ debounce_time = 2
    /\ since_webhook = 2
    /\ last_result = "none"
    /\ poll_pc = "idle"
    /\ data[PlantMap[1]] \in Snaps
    /\ data[PlantMap[2]] = None

-----------------------------------------------------------------------------
(* Failed token refresh *)

\* The answers on which refresh_access_token raises
FailedTokenAnswers == {answer \in TokenAnswers : refresh_access_token(answer).raises}

\* A token refresh fails in this step, in the 401 handler of a call or in the
\* timer refresh
RefreshFails ==
    \E answer \in FailedTokenAnswers :
        \/ handle_unauthorized_error(answer)
        \/ \E m \in ExpiryMembers, now \in Nows :
               SetupUpdateToken(answer, m, now) \/ TokenTimerFires(answer, m, now)

\* C30: a token refresh that fails (no answer, a status other than 200, a body
\* that is no JSON, no access_token in it) leaves the request header, the
\* access token, refresh token and expiry in memory, the saved config entry
\* and auth_broken as they were; no token response is taken, the failure is
\* reported, and a call that was waiting for the refresh ends without a
\* retry.
C30_FailedRefreshChangesNothing ==
    [][RefreshFails =>
          /\ cred'.header = cred.header
          /\ cred'.access_token = cred.access_token
          /\ cred'.refresh_token = cred.refresh_token
          /\ cred'.expires_on = cred.expires_on
          /\ cred'.entry = cred.entry
          /\ cred'.reported = "failed"
          /\ issued' = issued
          /\ auth_broken' = auth_broken
          /\ api_pc' \in {"idle", api_pc}]_vars

\* The last refresh failed after two token responses had been taken, one by
\* the timer refresh and one by the 401 handler: header and data hold them
\* still
C30_Witness ==
    /\ cred.reported = "failed"
    /\ issued = 2
    /\ cred.header \in {1, 2}
    /\ cred.access_token \in {1, 2}
    /\ cred.header # cred.access_token
    /\ cred.entry = cred.access_token
    /\ api_pc = "idle"

-----------------------------------------------------------------------------
(* The delay of the next token refresh *)

\* The newest timer was scheduled by a refresh that succeeded
ScheduledByRefresh == timer.how = "refreshed"

-----------------------------------------------------------------------------
(* The refresh chain over the life of the entry *)

\* C36: exactly one token refresh timer is pending whenever the entry is
\* loaded and none when it is not: each invocation of update_token schedules
\* one next invocation, and unloading and setting up again never leaves two
\* chains running.
C36_OneRefreshChain ==
    timer.pending = IF timer.loaded THEN 1 ELSE 0

-----------------------------------------------------------------------------
(* The action of the climate entity: BticinoX8000ClimateEntity.hvac_action *)

\* What a snapshot carries as mode, function and loadState ("": the member is
\* absent or empty)
Modes == {"", "automatic", "manual", "boost", "protection", "off", "AUTOMATIC"}

Functions == {"", "heating", "cooling", "HEATING"}

LoadStates == {"", "active", "inactive", "ACTIVE"}

\* str.lower on the strings above
lower(str) ==
    CASE str = "AUTOMATIC" -> "automatic"
      [] str = "BOOST" -> "boost"
      [] str = "HEATING" -> "heating"
      [] str = "ACTIVE" -> "active"
      [] OTHER -> str

\* The property hvac_action on the fields _mode, _function, _load_state
hvac_action(mode, function, load_state) ==
    IF mode # "" /\ function # "" /\ load_state # ""
    THEN IF /\ lower(mode) \in {"manual", "boost", "automatic"}
            /\ lower(function) = "heating"
            /\ lower(load_state) = "active"
         THEN "HEATING"
         ELSE IF /\ lower(mode) \in {"manual", "boost", "automatic"}
                 /\ lower(function) = "cooling"
                 /\ lower(load_state) = "active"
         THEN "COOLING"
         ELSE IF lower(load_state) = "inactive"
         THEN "OFF"
         ELSE "None"
    ELSE "None"

\* handle_webhook_update / async_sync_manual store the three members of the
\* snapshot in the entity
ClimateUpdate(mode, function, load_state) ==
    /\ probe' = [fn |-> "climate", mode |-> mode, function |-> function,
                 load_state |-> load_state, read |-> "unread"]
    /\ UNCHANGED <<coordVars, pollVars, otherVars, credVars, settingVars, timer, c2c>>

\* The state machine reads the property hvac_action
ReadHvacAction ==
    /\ probe.fn = "climate"
    /\ probe' = [probe EXCEPT !.read = hvac_action(probe.mode, probe.function, probe.load_state)]
    /\ UNCHANGED <<coordVars, pollVars, otherVars, credVars, settingVars, timer, c2c>>

NextAction ==
    \/ ReadHvacAction
    \/ \E mode \in Modes, function \in Functions, load_state \in LoadStates :
           ClimateUpdate(mode, function, load_state)

SpecAction == Init /\ [][NextAction]_vars

\* The modes a snapshot of the thermostat names
NamedModes == Modes \ {""}

\* C32: the action read for a device is a function of the function and the
\* load state of its snapshot alone: a snapshot with the same function and
\* load state and any other mode yields the same action.
C32_ActionFromFunctionAndLoad ==
    (probe.fn = "climate" /\ probe.read # "unread" /\ probe.mode \in NamedModes) =>
        \A mode \in NamedModes :
            hvac_action(mode, probe.function, probe.load_state) = probe.read

-----------------------------------------------------------------------------
(* Recovery from the cool-down under reconfiguration *)

\* The step ends a batch with `return data`, every monitored device having
\* answered 200 with its status
BatchEndsAllFetched ==
    /\ poll_pc = "wait"
    /\ poll_pc' = "idle"
    /\ last_result' = "ok"
    /\ \A d \in watched_topologies : data'[d] # None

\* C33: whatever poll batches, 429 aborts and calls of the Update Interval
\* and Cool Down Interval setters came before, a batch in which every device
\* returns 200 ends with the active polling interval equal to the current
\* normal_interval.
C33_CoolDownSelfHeals ==
    [][BatchEndsAllFetched => update_interval' = normal_interval']_vars

-----------------------------------------------------------------------------
(* The rate_limit_exceeded event *)

\* The step aborts the batch for a rate limit, however the 429 surfaced
RateLimitAbortStep ==
    /\ poll_pc = "wait"
    /\ poll_pc' = "idle"
    /\ last_result' = "UpdateFailed"
    /\ abort_cause' = "ratelimit"

\* C34: each rate-limit abort of a batch fires the rate_limit_exceeded event
\* (and creates the notification when notify_errors is on) exactly once,
\* whether the 429 surfaced as status_code 429, as RateLimitError or as
\* another exception whose message mentions 429.
C34_AbortFiresOnce ==
    [][RateLimitAbortStep => events' = events + 1]_vars

-----------------------------------------------------------------------------
(* Ingests that apply nothing *)

\* Bodies from which update_from_webhook applies no update and returns: JSON
\* that is no object, an object of unknown shape, a list naming only a
\* device that is not monitored
NoUpdatePayloads ==
    {p \in WebhookPayloads :
        \/ p.shape \in {"nondict", "unknown"}
        \/ p.shape \in {"A", "B"} /\ p.id \in DeviceIds \ watched_topologies}

\* C35: an ingest that applies no update does not start a debounce window:
\* the time since the last event that counts for the window is as before,
\* so that a following event for a monitored device is applied even less
\* than debounce_time later.
C35_NoUpdateStartsNoWindow ==
    [][\A p \in NoUpdatePayloads :
          (since_webhook >= debounce_time /\ WebhookIngest(p)) =>
              since_webhook' = since_webhook]_vars

-----------------------------------------------------------------------------
(* C2C subscriptions: add_c2c_subscription in the loop of async_setup_entry *)

\* How a request to the cloud ends: it is served, or it fails (a status
\* other than the expected ones, no answer)
CloudAnswers == {"served", "failed"}

\* The subscriptions the cloud can hold in one setup pass: one left over and
\* one created for each thermostat at most
Subscriptions == [id : 1..(2 * Cardinality(Thermostats)), webhook : Thermostats]

\* An earlier run of the entry subscribed thermostat i, saved the id and ended
\* without async_unload_entry (a restart): the subscription is still there
\* when the setup runs
LeftOver(i) ==
    /\ c2c.pc = "start"
    /\ \A sub \in c2c.upstream : sub.webhook # i
    /\ c2c' = [c2c EXCEPT !.upstream = @ \cup {[id |-> c2c.last_id + 1, webhook |-> i]},
                          !.stored[i] = c2c.last_id + 1,
                          !.last_id = @ + 1]
    /\ UNCHANGED <<coordVars, pollVars, otherVars, credVars, settingVars, timer, probe>>

\* add_c2c_subscription has returned subscription_id (0: None) to the loop of
\* c, which stores an id that is not None and goes on to the next thermostat
next_thermostat(c, subscription_id) ==
    [c EXCEPT !.stored[c.idx] = IF subscription_id # 0 THEN subscription_id ELSE @,
              !.ha_subscriptions = {},
              !.idx = IF c.idx = Cardinality(Thermostats) THEN @ ELSE @ + 1,
              !.pc = IF c.idx = Cardinality(Thermostats) THEN "done" ELSE "subscribe"]

\* The cloud creates a subscription for the webhook of the thermostat in turn
subscription_created(c) ==
    [c EXCEPT !.upstream = @ \cup {[id |-> c.last_id + 1, webhook |-> c.idx]},
              !.created = @ \cup {c.last_id + 1},
              !.last_id = @ + 1]

\* The cloud answers 409 to a subscribe for a webhook it holds a subscription
\* for
Conflict(c) == \E sub \in c.upstream : sub.webhook = c.idx

\* async_setup_entry reaches the loop over data["selected_thermostats"]
SetupSubscriptions ==
    /\ c2c.pc = "start"
    /\ c2c' = [c2c EXCEPT !.pc = "subscribe"]
    /\ UNCHANGED <<coordVars, pollVars, otherVars, credVars, settingVars, timer, probe>>

\* add_c2c_subscription: the first set_subscribe_c2c_notifications. 201: the
\* id is returned; 409: the cleanup starts; anything else: None
Subscribe(answer) ==
    /\ c2c.pc = "subscribe"
    /\ LET c == [c2c EXCEPT !.posts[c2c.idx] = @ + 1]
       IN  c2c' = IF answer = "failed" THEN next_thermostat(c, 0)
                  ELSE IF Conflict(c) THEN [c EXCEPT !.pc = "list"]
                  ELSE next_thermostat(subscription_created(c), c.last_id + 1)
    /\ UNCHANGED <<coordVars, pollVars, otherVars, credVars, settingVars, timer, probe>>

\* The cleanup: get_subscriptions_c2c_notifications, filtered to the
\* subscriptions of the plant whose EndPointUrl contains "/api/webhook/"
ListSubscriptions(answer) ==
    /\ c2c.pc = "list"
    /\ c2c' = IF answer = "failed" \/ c2c.upstream = {}
              THEN next_thermostat(c2c, 0)
              ELSE [c2c EXCEPT !.ha_subscriptions = c2c.upstream, !.pc = "delete"]
    /\ UNCHANGED <<coordVars, pollVars, otherVars, credVars, settingVars, timer, probe>>

\* The cleanup: delete_subscribe_c2c_notifications for one subscription of
\* the list; a failure is logged and the loop goes on
DeleteSubscription(sub, answer) ==
    /\ c2c.pc = "delete"
    /\ sub \in c2c.ha_subscriptions
    /\ LET left == c2c.ha_subscriptions \ {sub}
           c == [c2c EXCEPT !.ha_subscriptions = left,
                            !.pc = IF left = {} THEN "retry" ELSE "delete"]
       IN  c2c' = IF answer = "failed" THEN c
                  ELSE [c EXCEPT !.upstream = @ \ {sub}, !.deleted = @ \cup {sub.id}]
    /\ UNCHANGED <<coordVars, pollVars, otherVars, credVars, settingVars, timer, probe>>

\* The cleanup: the second set_subscribe_c2c_notifications. 201: the id is
\* returned; anything else: None
RetrySubscribe(answer) ==
    /\ c2c.pc = "retry"
    /\ LET c == [c2c EXCEPT !.posts[c2c.idx] = @ + 1]
       IN  c2c' = IF answer = "failed" \/ Conflict(c) THEN next_thermostat(c, 0)
                  ELSE next_thermostat(subscription_created(c), c.last_id + 1)
    /\ UNCHANGED <<coordVars, pollVars, otherVars, credVars, settingVars, timer, probe>>

NextSubs ==
    \/ SetupSubscriptions
    \/ \E i \in Thermostats : LeftOver(i)
    \/ \E answer \in CloudAnswers : Subscribe(answer)
    \/ \E answer \in CloudAnswers : ListSubscriptions(answer)
    \/ \E sub \in Subscriptions, answer \in CloudAnswers : DeleteSubscription(sub, answer)
    \/ \E answer \in CloudAnswers : RetrySubscribe(answer)

SpecSubs == Init /\ [][NextSubs]_vars

\* C37: the cleanup on a 409 deletes no subscription that the same setup pass
\* created; when the setup is through, every subscription_id stored in the
\* entry names a subscription the setup did not delete; at most two
\* subscribe requests are made for a thermostat.
C37_CleanupSparesOwnSubscriptions ==
    /\ c2c.created \cap c2c.deleted = {}
    /\ c2c.pc = "done" =>
           \A i \in Thermostats : c2c.stored[i] # 0 => c2c.stored[i] \notin c2c.deleted
    /\ \A i \in Thermostats : c2c.posts[i] <= 2

-----------------------------------------------------------------------------
(* Boost: the set_boost_mode service (climate.py) and the boost select
   (select.py) *)

DEFAULT_MAX_TEMP == 40

DEFAULT_MIN_TEMP == 7

\* The boost_time values of the service
BoostTimes == {30, 60, 90}

\* Readings of dt_util.now() in half seconds, and the half seconds that pass
\* between the reading for the start and the reading for the end
ClockReadings == 0..3

ClockLags == {0, 1}

\* strftime("%Y-%m-%dT%H:%M:%S") of a clock reading: whole seconds, the
\* fraction is dropped
strftime(t) == t \div 2

\* int(seconds / 60): the fraction is dropped, toward zero
whole_minutes(seconds) ==
    IF seconds >= 0 THEN seconds \div 60 ELSE 0 - ((0 - seconds) \div 60)

\* The payload of _async_service_set_boost_mode, its clock read at t0 for
\* now_timestamp and at t1 for the end
set_boost_mode(hvac_mode, boost_time, t0, t1) ==
    [function |-> hvac_mode,
     mode |-> "boost",
     activationTime |-> [form |-> "start/end", start |-> strftime(t0),
                         end |-> strftime(t1 + boost_time * 120)],
     setPoint |-> IF hvac_mode = "cooling" THEN DEFAULT_MIN_TEMP ELSE DEFAULT_MAX_TEMP]

\* Other status objects the select is fed: any mode; as activationTime a
\* start/end pair, a single end time, text that is no time, or none
OtherChronos ==
    [function : {"heating"},
     mode : {"automatic", "manual", "off", "protection", "", "boost", "BOOST"},
     activationTime : {[form |-> "start/end", start |-> 0, end |-> 4000],
                       [form |-> "end", start |-> 0, end |-> 1500],
                       [form |-> "end", start |-> 0, end |-> 30],
                       [form |-> "text", start |-> 0, end |-> 0],
                       [form |-> "absent", start |-> 0, end |-> 0]},
     setPoint : {20}]

\* Variant of the select that knows the three durations to the second only
update_boost_state_from_data_ExactSeconds(chrono_data, now) ==
    IF lower(chrono_data.mode) = "boost" /\ chrono_data.activationTime.form = "start/end"
    THEN LET seconds == chrono_data.activationTime.end - chrono_data.activationTime.start
         IN  IF seconds = 1800 THEN "30"
             ELSE IF seconds = 3600 THEN "60"
             ELSE IF seconds = 5400 THEN "90"
             ELSE "off"
    ELSE "off"

\* _update_boost_state_from_data: the option the select shows after it was
\* fed chrono_data at time now (seconds)
update_boost_state_from_data(chrono_data, now) ==
    IF lower(chrono_data.mode) = "boost" /\ chrono_data.activationTime.form = "start/end"
    THEN LET duration_minutes ==
                 whole_minutes(chrono_data.activationTime.end - chrono_data.activationTime.start)
         IN  IF duration_minutes <= 45 THEN "30"
             ELSE IF duration_minutes <= 75 THEN "60"
             ELSE "90"
    ELSE IF lower(chrono_data.mode) = "boost" /\ chrono_data.activationTime.form = "end"
    THEN LET remaining_minutes == whole_minutes(chrono_data.activationTime.end - now)
         IN  IF remaining_minutes <= 0 THEN "off"
             ELSE IF remaining_minutes <= 30 THEN "30"
             ELSE IF remaining_minutes <= 60 THEN "60"
             ELSE "90"
    ELSE "off"

\* The option the select shows now ("off" from its constructor)
current_option == IF probe.fn = "boost" THEN probe.option ELSE "off"

\* The service set_boost_mode is called and the thermostat takes the payload:
\* its next status object carries the payload's members
SetBoostMode(hvac_mode, boost_time, t0, lag) ==
    /\ probe' = [fn |-> "boost", boost_time |-> boost_time,
                 chrono_data |-> set_boost_mode(hvac_mode, boost_time, t0, t0 + lag),
                 option |-> current_option, fed |-> FALSE]
    /\ UNCHANGED <<coordVars, pollVars, otherVars, credVars, settingVars, timer, c2c>>

\* The thermostat is in a state that no boost call of this integration made
OtherStatus(chrono_data) ==
    /\ probe' = [fn |-> "boost", boost_time |-> 0, chrono_data |-> chrono_data,
                 option |-> current_option, fed |-> FALSE]
    /\ UNCHANGED <<coordVars, pollVars, otherVars, credVars, settingVars, timer, c2c>>

\* handle_webhook_update / async_update of the select feed the status object
\* to _update_boost_state_from_data
BoostSelectUpdate(now) ==
    /\ probe.fn = "boost"
    /\ probe' = [probe EXCEPT !.option = update_boost_state_from_data(probe.chrono_data, now),
                              !.fed = TRUE]
    /\ UNCHANGED <<coordVars, pollVars, otherVars, credVars, settingVars, timer, c2c>>

NextBoost ==
    \/ \E hvac_mode \in {"heating", "cooling"}, boost_time \in BoostTimes,
          t0 \in ClockReadings, lag \in ClockLags :
           SetBoostMode(hvac_mode, boost_time, t0, lag)
    \/ \E chrono_data \in OtherChronos : OtherStatus(chrono_data)
    \/ \E now \in {0, 60} : BoostSelectUpdate(now)

SpecBoost == Init /\ [][NextBoost]_vars

\* The option of the select that names a duration
OptionOf(boost_time) ==
    CASE boost_time = 30 -> "30"
      [] boost_time = 60 -> "60"
      [] boost_time = 90 -> "90"
      [] OTHER -> "off"

\* C38: for every duration d of 30, 60, 90 the status object that carries
\* the payload of set_boost_mode (mode boost, activationTime from now to
\* now + d minutes), fed to the boost select, yields the option d; and every
\* status object whose mode is not boost yields "off".
C38_BoostRoundTrip ==
    (probe.fn = "boost" /\ probe.fed) =>
        /\ probe.boost_time \in BoostTimes => probe.option = OptionOf(probe.boost_time)
        /\ lower(probe.chrono_data.mode) # "boost" => probe.option = "off"

\* A boost of 60 minutes whose start and end were stamped on either side of
\* a full second (3601 seconds apart) was fed to the select, which shows 60
C38_Witness ==
    /\ probe.fn = "boost"
    /\ probe.fed
    /\ probe.boost_time = 60
    /\ probe.chrono_data.activationTime.end - probe.chrono_data.activationTime.start = 3601
    /\ probe.option = "60"

====
